---- MODULE Spec2Model ----
(***************************************************************************)
(* Session lifecycle of the budget tracker frontend: the AuthProvider      *)
(* state (user, token, loading), the browser's localStorage entries        *)
(* 'token' and 'user', the axios interceptors, and the login and logout    *)
(* requests in flight.                                                     *)
(***************************************************************************)
EXTENDS Integers, Sequences, FiniteSets, TLC

VARIABLES
    user,        \* AuthProvider state `user`   (User | null)
    token,       \* AuthProvider state `token`  (string | null)
    loading,     \* AuthProvider state `loading`
    effectRuns,  \* how many times the mount effect has run checkAuth
    strictMode,  \* development build: React.StrictMode runs effects twice
    lsToken,     \* localStorage.getItem('token')
    lsUser,      \* localStorage.getItem('user')
    pathname,    \* window.location.pathname
    reloading,   \* window.location.href was assigned: a full page load is due
    pending,     \* login/logout requests sent and not yet answered
    done,        \* the calls that have settled, in the order they settled
    nextId,      \* id given to the next call
    histLen,     \* entries the router has put on the history of this page load
    hook,        \* outcome of the last useAuth() call made by a component
    loginPage,   \* Login page: its `loading` state and the toast it shows
    dashboard,   \* Dashboard page: its state hooks and the toast it shows
    fetches,     \* Dashboard page: fetchData runs with a request in flight
    fetched,     \* Dashboard page: fetchData runs, as their await settled
    txPage,      \* Transactions page: its state hooks and the toast it shows
    txFetches,   \* Transactions page: fetchTransactions runs in flight
    filterForm   \* TransactionFilters: form values and the debounce timer

vars == <<user, token, loading, effectRuns, strictMode, lsToken, lsUser,
          pathname, reloading, pending, done, nextId, histLen, hook,
          loginPage, dashboard, fetches, fetched, txPage, txFetches,
          filterForm>>

\* the state of the page components
dashVars == <<dashboard, fetches, fetched>>
txVars == <<txPage, txFetches, filterForm>>
pageVars == <<loginPage, dashVars, txVars>>

----------------------------------------------------------------------------
(* Bounds *)

MaxCalls == 2
MaxHistory == 2
MaxFetches == 2
MaxRefetches == 3

----------------------------------------------------------------------------
(* Values *)

NULL == "NULL"                 \* JavaScript null / undefined
SyntaxError == "SyntaxError"   \* JSON.parse throws

Tokens == {"abc", "xyz"}
Users == {"testuser", "other"}

\* JSON.stringify of a User record
JSONstringify(u) ==
    CASE u = "testuser" -> "{\"id\":1,\"username\":\"testuser\"}"
      [] u = "other"    -> "{\"id\":2,\"username\":\"other\"}"
      [] OTHER          -> "null"

\* values localStorage may hold under 'user': serialized users, the JSON
\* literal null, and a malformed text
UserTexts == {JSONstringify(u) : u \in Users} \cup {"null", "{bad"}

\* JSON.parse of a stored text
JSONparse(s) ==
    IF \E u \in Users : JSONstringify(u) = s
    THEN CHOOSE u \in Users : JSONstringify(u) = s
    ELSE IF s = "null" THEN NULL ELSE SyntaxError

\* JavaScript truthiness of the values of this model
Truthy(v) == v # NULL /\ v # ""

LoginPath == "/login"
DashboardPath == "/dashboard"
Paths == {"/login", "/dashboard", "/transactions"}

FallbackError == "Login failed. Please try again."

\* responses of POST /api/auth/login/ : status 0 is "no response received"
LoginOk == [status : {200}, token : Tokens, user : Users, error : {NULL}]
HttpError ==
    { [status |-> 401, token |-> NULL, user |-> NULL, error |-> "Invalid credentials"],
      [status |-> 500, token |-> NULL, user |-> NULL, error |-> NULL],
      [status |-> 400, token |-> NULL, user |-> NULL, error |-> ""] }
NetworkError == [status : {0}, token : {NULL}, user : {NULL}, error : {NULL}]
LoginResponses == LoginOk \cup HttpError \cup NetworkError

\* responses of POST /api/auth/logout/
LogoutOk == [status : {200}, token : {NULL}, user : {NULL}, error : {NULL}]
LogoutResponses == LogoutOk \cup HttpError \cup NetworkError

\* responses of the data requests of the protected pages
ApiResponses == [status : {200, 401, 500}, token : {NULL}, user : {NULL},
                 error : {NULL}]

----------------------------------------------------------------------------
(* AuthContext.tsx *)

isAuthenticated == Truthy(token) /\ Truthy(user)

\* the Session and the cache as one record, so that a handler is a function
Snapshot == [user |-> user, token |-> token, lsToken |-> lsToken, lsUser |-> lsUser]

\* number of times the mount effect runs checkAuth
MountEffectRuns == IF strictMode THEN 2 ELSE 1

\* checkAuth with an else branch that clears a partial cache
checkAuth_ClearsPartial(s) ==
    IF Truthy(s.lsToken) /\ Truthy(s.lsUser)
    THEN IF JSONparse(s.lsUser) = SyntaxError
         THEN [s EXCEPT !.token = s.lsToken, !.lsToken = NULL, !.lsUser = NULL]
         ELSE [s EXCEPT !.token = s.lsToken, !.user = JSONparse(s.lsUser)]
    ELSE [s EXCEPT !.lsToken = NULL, !.lsUser = NULL]

\* checkAuth whose catch block only logs
checkAuth_KeepsCorrupt(s) ==
    IF Truthy(s.lsToken) /\ Truthy(s.lsUser)
    THEN IF JSONparse(s.lsUser) = SyntaxError
         THEN [s EXCEPT !.token = s.lsToken]
         ELSE [s EXCEPT !.token = s.lsToken, !.user = JSONparse(s.lsUser)]
    ELSE s

\* checkAuth that restores the token and forgets setUser
checkAuth_TokenOnly(s) ==
    IF Truthy(s.lsToken) /\ Truthy(s.lsUser)
    THEN IF JSONparse(s.lsUser) = SyntaxError
         THEN [s EXCEPT !.token = s.lsToken, !.lsToken = NULL, !.lsUser = NULL]
         ELSE [s EXCEPT !.token = s.lsToken]
    ELSE s

\* checkAuth: the Session and the cache after the try/catch (setLoading(false)
\* of the finally block is in the action)
checkAuth(s) ==
    IF Truthy(s.lsToken) /\ Truthy(s.lsUser)
    THEN IF JSONparse(s.lsUser) = SyntaxError
         THEN \* setToken ran before JSON.parse threw; the catch clears the cache
              [s EXCEPT !.token = s.lsToken, !.lsToken = NULL, !.lsUser = NULL]
         ELSE [s EXCEPT !.token = s.lsToken, !.user = JSONparse(s.lsUser)]
    ELSE s

\* login that updates the state and forgets the localStorage writes
loginSettle_SessionOnly(resp, s) ==
    IF resp.status = 200
    THEN [s EXCEPT !.token = resp.token, !.user = resp.user]
    ELSE s

\* login that ignores a response when a Session is already set
loginSettle_FirstWins(resp, s) ==
    IF resp.status = 200 /\ ~Truthy(s.token)
    THEN [s EXCEPT !.lsToken = resp.token,
                   !.lsUser = JSONstringify(resp.user),
                   !.token = resp.token,
                   !.user = resp.user]
    ELSE s

\* login that writes localStorage and forgets setToken / setUser
loginSettle_CacheOnly(resp, s) ==
    IF resp.status = 200
    THEN [s EXCEPT !.lsToken = resp.token,
                   !.lsUser = JSONstringify(resp.user)]
    ELSE s

\* login that forgets localStorage.setItem('user', ...)
loginSettle_NoUserEntry(resp, s) ==
    IF resp.status = 200
    THEN [s EXCEPT !.lsToken = resp.token,
                   !.token = resp.token,
                   !.user = resp.user]
    ELSE s

\* login, after the awaited request has settled with resp: the try branch
\* on a response the interceptor let through, the catch branch otherwise
loginSettle(resp, s) ==
    IF resp.status = 200
    THEN [s EXCEPT !.lsToken = resp.token,
                   !.lsUser = JSONstringify(resp.user),
                   !.token = resp.token,
                   !.user = resp.user]
    ELSE s

\* the catch branch without the fallback text
loginError_NoFallback(resp) == resp.error

\* the error text of login's catch branch
loginError(resp) ==
    IF Truthy(resp.error) THEN resp.error ELSE FallbackError

\* what the promise returned by login() settles with
loginOutcome(resp) ==
    IF resp.status = 200
    THEN [settled |-> "resolved", success |-> TRUE, error |-> NULL]
    ELSE [settled |-> "resolved", success |-> FALSE, error |-> loginError(resp)]

\* logout that clears in the try block, after the await, not in finally
logoutSettle_OnSuccessOnly(resp, s) ==
    IF resp.status = 200
    THEN [s EXCEPT !.token = NULL, !.user = NULL, !.lsToken = NULL, !.lsUser = NULL]
    ELSE s

\* logout that resets the state and leaves localStorage as it was
logoutSettle_StateOnly(resp, s) ==
    [s EXCEPT !.token = NULL, !.user = NULL]

\* logout, after the awaited request has settled: the finally block
logoutSettle(resp, s) ==
    [s EXCEPT !.token = NULL, !.user = NULL, !.lsToken = NULL, !.lsUser = NULL]

\* logout without its catch block: a failed revoke request rejects the call
logoutOutcome_RejectsOnError(resp) ==
    IF resp.status = 200
    THEN [settled |-> "resolved", success |-> TRUE, error |-> NULL]
    ELSE [settled |-> "rejected", success |-> FALSE, error |-> NULL]

\* what the promise returned by logout() settles with
logoutOutcome(resp) ==
    [settled |-> "resolved", success |-> TRUE, error |-> NULL]

\* useAuth: what a component gets for the context value it finds
UseAuthError == "useAuth must be used within AuthProvider"

NoContext == [provided |-> FALSE, user |-> NULL, token |-> NULL,
              loading |-> FALSE, isAuthenticated |-> FALSE]

\* useAuth that hands out an empty Session when there is no provider
useAuth_Default(context) ==
    [threw |-> FALSE, message |-> NULL, value |-> context]

useAuth(context) ==
    IF ~context.provided
    THEN [threw |-> TRUE, message |-> UseAuthError, value |-> NoContext]
    ELSE [threw |-> FALSE, message |-> NULL, value |-> context]

----------------------------------------------------------------------------
(* transactionApi.ts : a data request, as the caller sees it settle *)

apiOutcome(resp) ==
    IF resp.status = 200
    THEN [settled |-> "resolved", success |-> TRUE, error |-> NULL]
    ELSE [settled |-> "rejected", success |-> FALSE, error |-> NULL]

----------------------------------------------------------------------------
(* axios.ts *)

NoHeader == <<>>

\* request interceptor without the check that a token exists
requestInterceptor_Always(t) == <<"Token", t>>

\* request interceptor: the Authorization header of an outgoing request
requestInterceptor(t) ==
    IF Truthy(t) THEN <<"Token", t>> ELSE NoHeader

\* response interceptor that clears the cache on every error response
responseInterceptor_AnyError(resp, s) ==
    IF resp.status >= 400
    THEN [s EXCEPT !.lsToken = NULL, !.lsUser = NULL]
    ELSE s

\* response interceptor that also drops the cache on a server error
responseInterceptor_ServerError(resp, s) ==
    IF resp.status = 401 \/ resp.status >= 500
    THEN [s EXCEPT !.lsToken = NULL, !.lsUser = NULL]
    ELSE s

\* response interceptor, error handler: the cache after it has run
responseInterceptor(resp, s) ==
    IF resp.status = 401
    THEN [s EXCEPT !.lsToken = NULL, !.lsUser = NULL]
    ELSE s

\* response interceptor that clears the cache and leaves the page alone
redirectsToLogin_Never(resp, path) == FALSE

\* response interceptor, error handler: whether it assigns location.href
redirectsToLogin(resp, path) ==
    resp.status = 401 /\ path # LoginPath

----------------------------------------------------------------------------
(* PrivateRoute.tsx / App.tsx : what is rendered *)

Element(kind, to, replace) == [kind |-> kind, to |-> to, replace |-> replace]

\* PrivateRoute that does not wait for the bootstrap
PrivateRoute_NoLoadingCheck(isLoading, auth) ==
    IF ~auth THEN Element("Navigate", LoginPath, TRUE)
    ELSE Element("Children", NULL, FALSE)

\* PrivateRoute whose <Navigate> lacks the replace attribute
PrivateRoute_Push(isLoading, auth) ==
    IF isLoading THEN Element("Placeholder", NULL, FALSE)
    ELSE IF ~auth THEN Element("Navigate", LoginPath, FALSE)
    ELSE Element("Children", NULL, FALSE)

\* PrivateRoute that renders its children once loading is over
PrivateRoute_NoAuthCheck(isLoading, auth) ==
    IF isLoading THEN Element("Placeholder", NULL, FALSE)
    ELSE Element("Children", NULL, FALSE)

\* PrivateRoute: placeholder, <Navigate to="/login" replace />, or children
PrivateRoute(isLoading, auth) ==
    IF isLoading THEN Element("Placeholder", NULL, FALSE)
    ELSE IF ~auth THEN Element("Navigate", LoginPath, TRUE)
    ELSE Element("Children", NULL, FALSE)

\* App whose '/login' route shows the login page to everyone
App_LoginForAll(path, isLoading, auth) ==
    IF isLoading THEN Element("Loader", NULL, FALSE)
    ELSE IF path = LoginPath
         THEN Element("Login", NULL, FALSE)
         ELSE PrivateRoute(isLoading, auth)

\* App: the loader while loading, else the element of the matching route
App(path, isLoading, auth) ==
    IF isLoading THEN Element("Loader", NULL, FALSE)
    ELSE IF path = LoginPath
         THEN (IF auth THEN Element("Navigate", DashboardPath, TRUE)
                       ELSE Element("Login", NULL, FALSE))
         ELSE PrivateRoute(isLoading, auth)

\* the path after the routes have rendered: a <Navigate> moves to its target
Routed(path, isLoading, auth) ==
    IF App(path, isLoading, auth).kind = "Navigate"
    THEN App(path, isLoading, auth).to
    ELSE path

\* the number of history entries after the routes have rendered: a
\* <Navigate> without replace pushes one
HistoryAfter(n, path, isLoading, auth) ==
    IF App(path, isLoading, auth).kind = "Navigate"
          /\ ~App(path, isLoading, auth).replace
    THEN n + 1
    ELSE n

\* what the page shows
View == App(pathname, loading, isAuthenticated)

\* the context value a component inside AuthProvider finds
ContextValue == [provided |-> TRUE, user |-> user, token |-> token,
                 loading |-> loading, isAuthenticated |-> isAuthenticated]

\* no component has called useAuth yet
NoHook == [called |-> FALSE, context |-> NoContext,
           result |-> [threw |-> FALSE, message |-> NULL, value |-> NoContext]]

----------------------------------------------------------------------------
(* The state machine *)

TypeOK ==
    /\ user \in Users \cup {NULL}
    /\ token \in Tokens \cup {NULL}
    /\ loading \in BOOLEAN
    /\ effectRuns \in 0..2
    /\ strictMode \in BOOLEAN
    /\ lsToken \in Tokens \cup {NULL}
    /\ lsUser \in UserTexts \cup {NULL}
    /\ pathname \in Paths
    /\ reloading \in BOOLEAN
    /\ nextId \in 1..(MaxCalls + 1)
    /\ Len(done) <= MaxCalls
    /\ histLen \in 1..MaxHistory
    /\ loginPage.loading \in BOOLEAN
    /\ dashboard.nextId \in 1..(MaxFetches + 1)
    /\ Len(fetched) <= MaxFetches
    /\ txPage.nextId \in 1..(MaxRefetches + 1)
    /\ Cardinality(txFetches) <= MaxRefetches

\* Login page as mounted: button enabled, no toast
NoSubmit == [loading |-> FALSE, message |-> NULL]

\* what the transaction list is filtered by; NULL is an absent field
DefaultFilters == [search |-> NULL, ordering |-> "-date"]

\* the parameters of GET /api/transactions/
Query(filters, page, size) ==
    [filters |-> filters, page |-> page, page_size |-> size]

\* Transactions page as mounted: no rows, first page of ten, default filters
NoTransactions ==
    [effectRuns |-> 0, nextId |-> 1, filters |-> DefaultFilters,
     currentPage |-> 1, pageSize |-> 10,
     transactions |-> Query(DefaultFilters, 0, 0),
     total |-> Query(DefaultFilters, 0, 0),
     loading |-> FALSE, message |-> NULL, newest |-> 0]

\* TransactionFilters as mounted: empty form, no debounced call waiting
NoFilterForm ==
    [values |-> [search |-> NULL],
     timer |-> [armed |-> FALSE, filters |-> DefaultFilters],
     cleared |-> FALSE]

\* Dashboard page as mounted: nothing loaded, both sections loading
NoDashboard ==
    [effectRuns |-> 0, nextId |-> 1, summary |-> NULL, transactions |-> "[]",
     summaryLoading |-> TRUE, transactionsLoading |-> TRUE,
     refreshing |-> FALSE, message |-> NULL]

\* a page load: fresh AuthProvider state over whatever localStorage holds
Init ==
    /\ user = NULL
    /\ token = NULL
    /\ loading = TRUE
    /\ effectRuns = 0
    /\ strictMode \in BOOLEAN
    /\ lsToken \in Tokens \cup {NULL}
    /\ lsUser \in UserTexts \cup {NULL}
    /\ pathname \in Paths
    /\ reloading = FALSE
    /\ pending = {}
    /\ done = <<>>
    /\ nextId = 1
    /\ histLen = 1
    /\ hook = NoHook
    /\ loginPage = NoSubmit
    /\ dashboard = NoDashboard
    /\ fetches = {}
    /\ fetched = <<>>
    /\ txPage = NoTransactions
    /\ txFetches = {}
    /\ filterForm = NoFilterForm

\* the assignments every handler ends with: the new Session and cache, and
\* the path the routes settle on once they render the new Session
Publish(s, isLoading) ==
    /\ user' = s.user
    /\ token' = s.token
    /\ lsToken' = s.lsToken
    /\ lsUser' = s.lsUser
    /\ loading' = isLoading
    /\ pathname' = Routed(pathname, isLoading, Truthy(s.token) /\ Truthy(s.user))
    /\ histLen' = HistoryAfter(histLen, pathname, isLoading,
                               Truthy(s.token) /\ Truthy(s.user))

\* the mount effect of AuthProvider
CheckAuth ==
    /\ effectRuns < MountEffectRuns
    /\ effectRuns' = effectRuns + 1
    /\ Publish(checkAuth(Snapshot), FALSE)
    /\ UNCHANGED <<pageVars, strictMode, reloading, pending, done, nextId, hook>>

\* the provider is mounted and its effects have run: consumers may call
Mounted == effectRuns = MountEffectRuns

\* login() that raises the loading flag while its request is in flight
LoginCall_SetsLoading ==
    /\ effectRuns = MountEffectRuns
    /\ nextId <= MaxCalls
    /\ pending' = pending \cup
         {[id |-> nextId, op |-> "login", auth |-> requestInterceptor(lsToken)]}
    /\ nextId' = nextId + 1
    /\ loading' = TRUE
    /\ UNCHANGED <<pageVars, user, token, effectRuns, strictMode, lsToken,
                   lsUser, pathname, reloading, done, histLen, hook>>

\* a consumer calls login(): the request leaves with the header of the moment
LoginCall ==
    /\ Mounted
    /\ nextId <= MaxCalls
    /\ pending' = pending \cup
         {[id |-> nextId, op |-> "login", auth |-> requestInterceptor(lsToken)]}
    /\ nextId' = nextId + 1
    /\ UNCHANGED <<pageVars, user, token, loading, effectRuns, strictMode, lsToken,
                   lsUser, pathname, reloading, done, histLen, hook>>

\* logout() that clears Session and cache before it awaits the request
LogoutCall_ClearsFirst ==
    /\ effectRuns = MountEffectRuns
    /\ nextId <= MaxCalls
    /\ pending' = pending \cup
         {[id |-> nextId, op |-> "logout", auth |-> requestInterceptor(lsToken)]}
    /\ nextId' = nextId + 1
    /\ Publish(logoutSettle(LogoutOk, Snapshot), loading)
    /\ UNCHANGED <<pageVars, effectRuns, strictMode, reloading, done, hook>>

\* a consumer calls logout()
LogoutCall ==
    /\ Mounted
    /\ nextId <= MaxCalls
    /\ pending' = pending \cup
         {[id |-> nextId, op |-> "logout", auth |-> requestInterceptor(lsToken)]}
    /\ nextId' = nextId + 1
    /\ UNCHANGED <<pageVars, user, token, loading, effectRuns, strictMode, lsToken,
                   lsUser, pathname, reloading, done, histLen, hook>>

Settled(c, resp, outcome) ==
    [id |-> c.id, op |-> c.op, status |-> resp.status,
     settled |-> outcome.settled, success |-> outcome.success,
     error |-> outcome.error, payload |-> resp.error,
     token |-> resp.token, user |-> resp.user, auth |-> c.auth,
     open |-> {d.id : d \in pending \ {c}}]

\* the login request of call c is answered with resp
LoginResponse(c, resp) ==
    /\ c \in pending
    /\ c.op = "login"
    /\ resp \in LoginResponses
    /\ Publish(loginSettle(resp, responseInterceptor(resp, Snapshot)), loading)
    /\ reloading' = (reloading \/ redirectsToLogin(resp, pathname))
    /\ pending' = pending \ {c}
    /\ done' = Append(done, Settled(c, resp, loginOutcome(resp)))
    /\ UNCHANGED <<pageVars, effectRuns, strictMode, nextId, hook>>

\* the logout request of call c is answered with resp
LogoutResponse(c, resp) ==
    /\ c \in pending
    /\ c.op = "logout"
    /\ resp \in LogoutResponses
    /\ Publish(logoutSettle(resp, responseInterceptor(resp, Snapshot)), loading)
    /\ reloading' = (reloading \/ redirectsToLogin(resp, pathname))
    /\ pending' = pending \ {c}
    /\ done' = Append(done, Settled(c, resp, logoutOutcome(resp)))
    /\ UNCHANGED <<pageVars, effectRuns, strictMode, nextId, hook>>

\* a protected page sends a data request
ApiCall ==
    /\ Mounted
    /\ View.kind = "Children"
    /\ nextId <= MaxCalls
    /\ pending' = pending \cup
         {[id |-> nextId, op |-> "api", auth |-> requestInterceptor(lsToken)]}
    /\ nextId' = nextId + 1
    /\ UNCHANGED <<pageVars, user, token, loading, effectRuns, strictMode, lsToken,
                   lsUser, pathname, reloading, done, histLen, hook>>

\* the data request of call c is answered with resp
ApiResponse(c, resp) ==
    /\ c \in pending
    /\ c.op = "api"
    /\ resp \in ApiResponses
    /\ Publish(responseInterceptor(resp, Snapshot), loading)
    /\ reloading' = (reloading \/ redirectsToLogin(resp, pathname))
    /\ pending' = pending \ {c}
    /\ done' = Append(done, Settled(c, resp, apiOutcome(resp)))
    /\ UNCHANGED <<pageVars, effectRuns, strictMode, nextId, hook>>

\* the user follows a link of the application: the router pushes an entry
Navigate(p) ==
    /\ Mounted
    /\ p \in Paths
    /\ histLen < MaxHistory
    /\ pathname' = Routed(p, loading, isAuthenticated)
    /\ pathname' # pathname
    /\ histLen' = HistoryAfter(histLen + 1, p, loading, isAuthenticated)
    /\ UNCHANGED <<pageVars, user, token, loading, effectRuns, strictMode, lsToken,
                   lsUser, reloading, pending, done, nextId, hook>>

\* the page load that location.href = '/login' asked for: the old document
\* and its calls are gone, localStorage stays
PageReload ==
    /\ reloading
    /\ user' = NULL
    /\ token' = NULL
    /\ loading' = TRUE
    /\ effectRuns' = 0
    /\ pathname' = LoginPath
    /\ reloading' = FALSE
    /\ pending' = {}
    /\ done' = <<>>
    /\ nextId' = 1
    /\ histLen' = 1
    /\ loginPage' = NoSubmit
    /\ dashboard' = NoDashboard
    /\ fetches' = {}
    /\ fetched' = <<>>
    /\ txPage' = NoTransactions
    /\ txFetches' = {}
    /\ filterForm' = NoFilterForm
    /\ UNCHANGED <<strictMode, lsToken, lsUser, hook>>

Next ==
    \/ CheckAuth
    \/ LoginCall
    \/ LogoutCall
    \/ \E c \in pending, resp \in LoginResponses : LoginResponse(c, resp)
    \/ \E c \in pending, resp \in LogoutResponses : LogoutResponse(c, resp)
    \/ ApiCall
    \/ \E c \in pending, resp \in ApiResponses : ApiResponse(c, resp)
    \/ \E p \in Paths : Navigate(p)
    \/ PageReload

Spec == Init /\ [][Next]_vars

----------------------------------------------------------------------------
(* useAuth called by a component, inside or outside an AuthProvider *)

UseAuth(inside) ==
    /\ hook' = [called |-> TRUE,
                context |-> (IF inside THEN ContextValue ELSE NoContext),
                result |-> useAuth(IF inside THEN ContextValue ELSE NoContext)]
    /\ hook' # hook
    /\ UNCHANGED <<pageVars, user, token, loading, effectRuns, strictMode, lsToken,
                   lsUser, pathname, reloading, pending, done, nextId, histLen>>

HookNext ==
    \/ CheckAuth
    \/ \E inside \in BOOLEAN : UseAuth(inside)

HookSpec == Init /\ [][HookNext]_vars

----------------------------------------------------------------------------
(* Login.tsx : the form of the login page *)

WelcomeMessage == "Login successful! Welcome back."

\* handleSubmit that navigates without { replace: true }
handleSubmit_Push(result, path, n) ==
    IF result.success
    THEN [message |-> WelcomeMessage, path |-> DashboardPath, n |-> n + 1]
    ELSE [message |-> (IF Truthy(result.error) THEN result.error
                       ELSE FallbackError),
          path |-> path, n |-> n]

\* handleSubmit, after `await login(...)`: the toast, the path and the
\* history length it leaves (login never rejects, so its catch is dead)
handleSubmit(result, path, n) ==
    IF result.success
    THEN [message |-> WelcomeMessage, path |-> DashboardPath, n |-> n]
    ELSE [message |-> (IF Truthy(result.error) THEN result.error
                       ELSE FallbackError),
          path |-> path, n |-> n]

\* the user submits the form: the button is disabled while a submit runs
Submit ==
    /\ Mounted
    /\ View.kind = "Login"
    /\ ~loginPage.loading
    /\ nextId <= MaxCalls
    /\ loginPage' = [loginPage EXCEPT !.loading = TRUE]
    /\ pending' = pending \cup
         {[id |-> nextId, op |-> "login", auth |-> requestInterceptor(lsToken)]}
    /\ nextId' = nextId + 1
    /\ UNCHANGED <<user, token, loading, effectRuns, strictMode, lsToken,
                   lsUser, pathname, reloading, done, histLen, hook,
                   dashVars, txVars>>

\* the login request of the form is answered: login() settles, handleSubmit
\* resumes, and the routes render the Session that login() has set
SubmitResponse(c, resp) ==
    /\ c \in pending
    /\ c.op = "login"
    /\ resp \in LoginResponses
    /\ LET s == loginSettle(resp, responseInterceptor(resp, Snapshot))
           h == handleSubmit(loginOutcome(resp), pathname, histLen)
           auth == Truthy(s.token) /\ Truthy(s.user)
       IN  /\ user' = s.user
           /\ token' = s.token
           /\ lsToken' = s.lsToken
           /\ lsUser' = s.lsUser
           /\ pathname' = Routed(h.path, loading, auth)
           /\ histLen' = HistoryAfter(h.n, h.path, loading, auth)
           /\ loginPage' = [loading |-> FALSE, message |-> h.message]
    /\ reloading' = (reloading \/ redirectsToLogin(resp, pathname))
    /\ pending' = pending \ {c}
    /\ done' = Append(done, Settled(c, resp, loginOutcome(resp)))
    /\ UNCHANGED <<loading, effectRuns, strictMode, nextId, hook,
                   dashVars, txVars>>

LoginPageNext ==
    \/ CheckAuth
    \/ Submit
    \/ \E c \in pending, resp \in LoginResponses : SubmitResponse(c, resp)
    \/ LogoutCall
    \/ \E c \in pending, resp \in LogoutResponses : LogoutResponse(c, resp)
    \/ \E p \in Paths : Navigate(p)
    \/ PageReload

LoginPageSpec == Init /\ [][LoginPageNext]_vars

----------------------------------------------------------------------------
(* Dashboard.tsx : fetchData *)

Summaries == {"summary1", "summary2"}
Lists == {"list1", "list2"}
DashboardError == "Failed to load dashboard data. Please try again."

\* a request of fetchData: not answered yet, or answered with status and data
Waiting == [arrived |-> FALSE, status |-> 0, data |-> NULL]
Failed == [arrived : {TRUE}, status : {401, 500}, data : {NULL}]
SummaryResults == [arrived : {TRUE}, status : {200}, data : Summaries] \cup Failed
RecentResults == [arrived : {TRUE}, status : {200}, data : Lists] \cup Failed

\* Promise.all([...]) of a fetchData run: fulfilled, rejected or pending
Fulfilled(f) == f.summary.status = 200 /\ f.recent.status = 200
Rejected(f) ==
    \/ f.summary.arrived /\ f.summary.status # 200
    \/ f.recent.arrived /\ f.recent.status # 200

\* fetchData that keeps whichever of the two answers it got
fetchData_Partial(d, f) ==
    [d EXCEPT !.summary = IF f.summary.status = 200 THEN f.summary.data ELSE @,
              !.transactions = IF f.recent.status = 200 THEN f.recent.data ELSE @,
              !.message = IF Fulfilled(f) THEN @ ELSE DashboardError,
              !.summaryLoading = FALSE,
              !.transactionsLoading = FALSE,
              !.refreshing = FALSE]

\* fetchData, from the point where its await has settled: try or catch,
\* then finally
fetchData(d, f) ==
    [d EXCEPT !.summary = IF Fulfilled(f) THEN f.summary.data ELSE @,
              !.transactions = IF Fulfilled(f) THEN f.recent.data ELSE @,
              !.message = IF Fulfilled(f) THEN @ ELSE DashboardError,
              !.summaryLoading = FALSE,
              !.transactionsLoading = FALSE,
              !.refreshing = FALSE]

\* the Dashboard component is on the page
DashboardShown == View.kind = "Children" /\ pathname = DashboardPath

\* fetchData up to its await: both requests leave
StartFetch(d) ==
    /\ d.nextId <= MaxFetches
    /\ fetches' = fetches \cup
         {[id |-> d.nextId, summary |-> Waiting, recent |-> Waiting,
           settled |-> FALSE]}
    /\ dashboard' = [d EXCEPT !.nextId = @ + 1]
    /\ UNCHANGED <<user, token, loading, effectRuns, strictMode, lsToken,
                   lsUser, pathname, reloading, pending, done, nextId,
                   histLen, hook, loginPage, fetched, txVars>>

\* the mount effect of Dashboard
DashboardEffect ==
    /\ DashboardShown
    /\ dashboard.effectRuns < MountEffectRuns
    /\ StartFetch([dashboard EXCEPT !.effectRuns = @ + 1])

\* the refresh button, which is disabled while `refreshing`
handleRefresh ==
    /\ DashboardShown
    /\ dashboard.effectRuns = MountEffectRuns
    /\ ~dashboard.refreshing
    /\ StartFetch([dashboard EXCEPT !.refreshing = TRUE])

\* one request of run f is answered, f2 being the run with that answer: the
\* response interceptor runs, and fetchData resumes if its await settles
Answered(f, f2, status) ==
    /\ f \in fetches
    /\ LET resp == [status |-> status]
           now == ~f.settled /\ (Fulfilled(f2) \/ Rejected(f2))
           f3 == [f2 EXCEPT !.settled = f.settled \/ now]
       IN  /\ Publish(responseInterceptor(resp, Snapshot), loading)
           /\ reloading' = (reloading \/ redirectsToLogin(resp, pathname))
           /\ dashboard' = IF now THEN fetchData(dashboard, f2) ELSE dashboard
           /\ fetched' = IF now THEN Append(fetched, f2) ELSE fetched
           /\ fetches' = IF f3.summary.arrived /\ f3.recent.arrived
                         THEN fetches \ {f}
                         ELSE (fetches \ {f}) \cup {f3}
    /\ UNCHANGED <<effectRuns, strictMode, pending, done, nextId, hook,
                   loginPage, txVars>>

\* GET /api/transactions/summary/ of run f is answered
SummaryResponse(f, r) ==
    /\ f \in fetches
    /\ ~f.summary.arrived
    /\ r \in SummaryResults
    /\ Answered(f, [f EXCEPT !.summary = r], r.status)

\* GET /api/transactions/ of run f is answered
RecentResponse(f, r) ==
    /\ f \in fetches
    /\ ~f.recent.arrived
    /\ r \in RecentResults
    /\ Answered(f, [f EXCEPT !.recent = r], r.status)

\* the dashboard, opened over a cached session
DashboardInit ==
    /\ Init
    /\ pathname = DashboardPath
    /\ lsToken \in Tokens
    /\ lsUser \in {JSONstringify(u) : u \in Users}

DashboardNext ==
    \/ CheckAuth
    \/ DashboardEffect
    \/ handleRefresh
    \/ \E f \in fetches, r \in SummaryResults : SummaryResponse(f, r)
    \/ \E f \in fetches, r \in RecentResults : RecentResponse(f, r)
    \/ PageReload

DashboardSpec == DashboardInit /\ [][DashboardNext]_vars

----------------------------------------------------------------------------
(* Transactions.tsx and TransactionFilters.tsx *)

TransactionsPath == "/transactions"
TransactionsError == "Failed to load transactions"

\* what the user can have typed into the search field
FormValues == [search : {NULL, "", "rent"}]
Pages == {1, 2}
PageSizes == {10, 20}
TransactionStatuses == {200, 401, 500}

\* handleValuesChange: the form values as API filters
toFilters(values) ==
    [search |-> IF Truthy(values.search) THEN values.search ELSE NULL,
     ordering |-> "-date"]

\* handleFilterChange of the Transactions page
handleFilterChange(p, newFilters) ==
    [p EXCEPT !.filters = newFilters, !.currentPage = 1]

\* pagination change of the table
handleTableChange(p, page, size) ==
    [p EXCEPT !.currentPage = page, !.pageSize = size]

\* fetchTransactions, from the point where its await has settled
fetchTransactions(p, f, status) ==
    [p EXCEPT !.transactions = IF status = 200 THEN f.query ELSE @,
              !.total = IF status = 200 THEN f.query ELSE @,
              !.message = IF status = 200 THEN @ ELSE TransactionsError,
              !.loading = FALSE,
              !.newest = IF f.id = p.nextId - 1 THEN status ELSE @]

\* the Transactions component is on the page
TransactionsShown == View.kind = "Children" /\ pathname = TransactionsPath

\* the effect on [currentPage, pageSize, filters] runs for page state p:
\* fetchTransactions up to its await
Refetch(p) ==
    /\ p.nextId <= MaxRefetches
    /\ txFetches' = txFetches \cup
         {[id |-> p.nextId,
           query |-> Query(p.filters, p.currentPage, p.pageSize)]}
    /\ txPage' = [p EXCEPT !.nextId = @ + 1, !.loading = TRUE, !.newest = 0]

\* what the handlers of the Transactions page leave alone
TransactionsFrame ==
    UNCHANGED <<user, token, loading, effectRuns, strictMode, lsToken,
                lsUser, pathname, reloading, pending, done, nextId,
                histLen, hook, loginPage, dashVars>>

\* the effect of Transactions at mount
TransactionsEffect ==
    /\ TransactionsShown
    /\ txPage.effectRuns < MountEffectRuns
    /\ Refetch([txPage EXCEPT !.effectRuns = @ + 1])
    /\ UNCHANGED filterForm
    /\ TransactionsFrame

TransactionsMounted ==
    TransactionsShown /\ txPage.effectRuns = MountEffectRuns

\* the user edits a filter field (the fields are disabled while loading):
\* the debounced call is re-armed with the filters of the form
ValuesChange(v) ==
    /\ TransactionsMounted
    /\ ~txPage.loading
    /\ v \in FormValues
    /\ v # filterForm.values
    /\ filterForm' = [values |-> v,
                      timer |-> [armed |-> TRUE, filters |-> toFilters(v)],
                      cleared |-> FALSE]
    /\ UNCHANGED <<txPage, txFetches>>
    /\ TransactionsFrame

\* 500 ms have passed since the last edit: debouncedFilterChange calls
\* onFilterChange, and the effect of the page runs
DebounceFires ==
    /\ TransactionsMounted
    /\ filterForm.timer.armed
    /\ Refetch(handleFilterChange(txPage, filterForm.timer.filters))
    /\ filterForm' = [filterForm EXCEPT !.timer.armed = FALSE]
    /\ TransactionsFrame

\* 'Clear All' (disabled while loading): handleClear resets the form and
\* calls onFilterChange at once; the effect of the page runs
Clear ==
    /\ TransactionsMounted
    /\ ~txPage.loading
    /\ Refetch(handleFilterChange(txPage, DefaultFilters))
    /\ filterForm' = [filterForm EXCEPT !.values = [search |-> NULL],
                                        !.cleared = TRUE]
    /\ TransactionsFrame

\* the user picks another page or page size in the table, which is covered
\* by its spinner while loading
TableChange(page, size) ==
    /\ TransactionsMounted
    /\ ~txPage.loading
    /\ page \in Pages /\ size \in PageSizes
    /\ <<page, size>> # <<txPage.currentPage, txPage.pageSize>>
    /\ Refetch(handleTableChange(txPage, page, size))
    /\ UNCHANGED filterForm
    /\ TransactionsFrame

\* the request of run f is answered: the response interceptor runs and
\* fetchTransactions resumes
TransactionsResponse(f, status) ==
    /\ f \in txFetches
    /\ status \in TransactionStatuses
    /\ Publish(responseInterceptor([status |-> status], Snapshot), loading)
    /\ reloading' = (reloading \/ redirectsToLogin([status |-> status], pathname))
    /\ txPage' = fetchTransactions(txPage, f, status)
    /\ txFetches' = txFetches \ {f}
    /\ UNCHANGED <<effectRuns, strictMode, pending, done, nextId, hook,
                   loginPage, dashVars, filterForm>>

\* the transactions page, opened over a cached session
TransactionsInit ==
    /\ Init
    /\ pathname = TransactionsPath
    /\ lsToken \in Tokens
    /\ lsUser \in {JSONstringify(u) : u \in Users}

TransactionsNext ==
    \/ CheckAuth
    \/ TransactionsEffect
    \/ \E v \in FormValues : ValuesChange(v)
    \/ DebounceFires
    \/ Clear
    \/ \E page \in Pages, size \in PageSizes : TableChange(page, size)
    \/ \E f \in txFetches, status \in TransactionStatuses :
          TransactionsResponse(f, status)
    \/ PageReload

TransactionsSpec == TransactionsInit /\ [][TransactionsNext]_vars

----------------------------------------------------------------------------
(* Steps and history used by the properties *)

\* the call that settled last
LastDone == done[Len(done)]

\* this step settles a call
Settles == Len(done') = Len(done) + 1

\* this step settles a login() call / a logout() call
SettlesLogin == Settles /\ done'[Len(done')].op = "login"
SettlesLogout == Settles /\ done'[Len(done')].op = "logout"

\* this step is a run of checkAuth
RunsCheckAuth == effectRuns' = effectRuns + 1

\* this step sends a request: the call it adds to pending
Sends == nextId' = nextId + 1
Sent == CHOOSE c \in pending' : c.id = nextId

\* Session and cache are cleared
Cleared == user = NULL /\ token = NULL /\ lsToken = NULL /\ lsUser = NULL

\* a fresh page load has just replaced the document
FreshLoad == loading /\ effectRuns = 0

----------------------------------------------------------------------------
(* C1: in every observable Session snapshot, user is present if and only if
   token is present. *)
C1_UserIffToken == (user # NULL) <=> (token # NULL)

(* C2: a login() call that fails leaves Session.user, Session.token and the
   two cache entries exactly as they were before it settled. *)
C2_FailedLoginChangesNothing ==
    [][(SettlesLogin /\ ~done'[Len(done')].success)
          => UNCHANGED <<user, token, lsToken, lsUser>>]_vars

(* C2, amended: a login() call that fails leaves Session.user and
   Session.token as they were; it leaves the two cache entries as they were
   unless the failure is an HTTP 401 response, and then both are removed. *)
C2_FailedLoginFrame ==
    [][(SettlesLogin /\ ~done'[Len(done')].success)
          => /\ UNCHANGED <<user, token>>
             /\ done'[Len(done')].status # 401 => UNCHANGED <<lsToken, lsUser>>
             /\ done'[Len(done')].status = 401 => lsToken' = NULL /\ lsUser' = NULL]_vars

\* a login has failed with a server error over an authenticated Session and
\* a filled cache
C2_Witness ==
    /\ Len(done) = 1
    /\ LastDone.op = "login" /\ ~LastDone.success /\ LastDone.status = 500
    /\ isAuthenticated /\ lsToken # NULL /\ lsUser # NULL

(* C3: when bootstrap finds only one of the two cache keys, it removes the
   remaining entry, and finishes with user and token unset, isAuthenticated
   false and loading false. *)
C3_PartialCacheCleared ==
    [][(RunsCheckAuth /\ ((lsToken = NULL) # (lsUser = NULL)))
          => /\ lsToken' = NULL /\ lsUser' = NULL
             /\ user' = NULL /\ token' = NULL
             /\ ~isAuthenticated' /\ ~loading']_vars

(* C3, amended: when bootstrap finds only one of the two cache keys, it
   leaves the cache as it found it (the remaining entry stays), and finishes
   with user and token unset, isAuthenticated false and loading false. *)
C3_PartialCacheKept ==
    [][(RunsCheckAuth /\ ((lsToken = NULL) # (lsUser = NULL)))
          => /\ UNCHANGED <<lsToken, lsUser>>
             /\ user' = NULL /\ token' = NULL
             /\ ~isAuthenticated' /\ ~loading']_vars

\* bootstrap has run over a cache that holds a token and no user
C3_Witness ==
    /\ effectRuns = MountEffectRuns /\ done = <<>> /\ pending = {}
    /\ lsToken # NULL /\ lsUser = NULL
    /\ ~loading /\ token = NULL /\ user = NULL

(* C4: once a logout() call has completed, isAuthenticated is false and the
   cache holds neither 'token' nor 'user', whatever the answer to the revoke
   request was; the call resolves, it never rejects. *)
C4_LogoutClears ==
    [][SettlesLogout
          => /\ ~isAuthenticated'
             /\ user' = NULL /\ token' = NULL
             /\ lsToken' = NULL /\ lsUser' = NULL
             /\ done'[Len(done')].settled = "resolved"]_vars

\* a login succeeded, then a logout whose revoke request the server answered
\* with an error has completed
C4_Witness ==
    /\ Len(done) = 2
    /\ done[1].op = "login" /\ done[1].success
    /\ done[2].op = "logout" /\ done[2].status = 500 /\ done[1].open = {}
    /\ ~isAuthenticated /\ lsToken = NULL /\ lsUser = NULL

(* C5: loading is true in the initial state, every run of bootstrap ends
   with loading false, and within one page load loading never becomes true
   again: no login, logout or repeated bootstrap sets it back. *)
C5_LoadingOnce ==
    /\ loading = TRUE
    /\ [][/\ RunsCheckAuth => ~loading'
          /\ (~loading /\ ~PageReload) => ~loading']_vars

\* the mount effect has run twice and two calls have settled since
C5_Witness ==
    /\ strictMode /\ effectRuns = 2 /\ Len(done) = 2
    /\ done[1].op = "login" /\ done[2].op = "logout"
    /\ ~loading

(* C6: when the credential service answers a login() call with {token,
   user}, the cache then holds that token and the serialized user, the
   Session holds the received values, isAuthenticated is true and the call
   resolves {success: true}. *)
C6_LoginSuccess ==
    [][(SettlesLogin /\ done'[Len(done')].status = 200)
          => /\ lsToken' = done'[Len(done')].token
             /\ lsUser' = JSONstringify(done'[Len(done')].user)
             /\ JSONparse(lsUser') = done'[Len(done')].user
             /\ token' = done'[Len(done')].token
             /\ user' = done'[Len(done')].user
             /\ isAuthenticated'
             /\ done'[Len(done')].settled = "resolved"
             /\ done'[Len(done')].success
             /\ done'[Len(done')].error = NULL]_vars

\* login("testuser", ...) answered {token: "abc", user: testuser} over an
\* empty cache
C6_Witness ==
    /\ Len(done) = 1 /\ LastDone.op = "login" /\ LastDone.status = 200
    /\ LastDone.token = "abc" /\ LastDone.user = "testuser"
    /\ lsToken = "abc" /\ lsUser = JSONstringify("testuser")
    /\ isAuthenticated

(* C7: when the cached user value is present but cannot be deserialized at
   bootstrap, both cache entries are removed and the Session ends
   logged-out with loading false. *)
C7_CorruptUserCleared ==
    [][(RunsCheckAuth /\ lsUser # NULL /\ JSONparse(lsUser) = SyntaxError)
          => /\ lsToken' = NULL /\ lsUser' = NULL
             /\ ~isAuthenticated' /\ ~loading']_vars

(* C7, amended: when a token is cached and the cached user value cannot be
   deserialized at bootstrap, both cache entries are removed and the
   Session ends logged-out with loading false. *)
C7_CorruptUserWithTokenCleared ==
    [][(RunsCheckAuth /\ lsToken # NULL
           /\ lsUser # NULL /\ JSONparse(lsUser) = SyntaxError)
          => /\ lsToken' = NULL /\ lsUser' = NULL
             /\ ~isAuthenticated' /\ ~loading']_vars

\* bootstrap has run over a token and a malformed user text: the cache is
\* empty although nothing else has happened
C7_Witness ==
    /\ effectRuns = 1 /\ ~strictMode /\ done = <<>> /\ pending = {}
    /\ token # NULL /\ user = NULL
    /\ lsToken = NULL /\ lsUser = NULL /\ ~loading

(* C8: bootstrap that finds a token and a deserializable user record ends
   with Session.token and Session.user equal to the cached values,
   isAuthenticated true and loading false, and leaves the cache unchanged. *)
C8_BootstrapRestores ==
    [][(RunsCheckAuth /\ lsToken # NULL /\ lsUser # NULL
           /\ JSONparse(lsUser) \in Users)
          => /\ token' = lsToken
             /\ user' = JSONparse(lsUser)
             /\ isAuthenticated' /\ ~loading'
             /\ UNCHANGED <<lsToken, lsUser>>]_vars

\* bootstrap has restored the Session from the cache
C8_Witness ==
    /\ effectRuns = MountEffectRuns /\ done = <<>> /\ pending = {}
    /\ lsToken = "xyz" /\ token = "xyz"
    /\ lsUser = JSONstringify("other") /\ user = "other"
    /\ ~loading

(* C9: every login() call resolves and never rejects: {success: true} on
   success, otherwise {success: false, error} with the message the failure
   carries when it carries one and the fixed fallback text when not. *)
C9_LoginAlwaysResolves ==
    \A i \in 1..Len(done) :
        done[i].op = "login" =>
            /\ done[i].settled = "resolved"
            /\ done[i].success <=> (done[i].status = 200)
            /\ done[i].success => done[i].error = NULL
            /\ ~done[i].success =>
                  done[i].error = (IF done[i].payload \in {NULL, ""}
                                   THEN FallbackError
                                   ELSE done[i].payload)

\* one login failed with a message, another failed in transport
C9_Witness ==
    /\ Len(done) = 2
    /\ done[1].op = "login" /\ done[1].error = "Invalid credentials"
    /\ done[2].op = "login" /\ done[2].status = 0
    /\ done[2].error = FallbackError

(* C10: when two login() calls overlap and both succeed, after both have
   resolved the Session and the cache hold the values of the response that
   resolved last, whichever call was issued first. *)
C10_LastLoginWins ==
    \A i \in 1..Len(done) :
        (/\ i < Len(done)
         /\ done[i].op = "login" /\ done[i].success
         /\ LastDone.op = "login" /\ LastDone.success
         /\ LastDone.id \in done[i].open)
        => /\ token = LastDone.token /\ user = LastDone.user
           /\ lsToken = LastDone.token
           /\ lsUser = JSONstringify(LastDone.user)

\* the call issued second resolved first, the call issued first resolved
\* last with other values, and the Session holds those
C10_Witness ==
    /\ Len(done) = 2
    /\ done[1].id = 2 /\ done[1].op = "login" /\ done[1].success
    /\ done[2].id = 1 /\ done[2].op = "login" /\ done[2].success
    /\ 1 \in done[1].open
    /\ done[1].token = "xyz" /\ done[1].user = "other"
    /\ done[2].token = "abc" /\ done[2].user = "testuser"
    /\ token = "abc" /\ user = "testuser" /\ lsToken = "abc"

(* C11: logout() does not clear Session or cache when it sends its revoke
   request, only when that request has been answered; and whenever the
   request is answered, with success or with any failure, the clear happens,
   so a logout whose request completes leaves the Session cleared. *)
C11_LogoutClearsAfterAwait ==
    /\ [][(Sends /\ Sent.op = "logout")
            => UNCHANGED <<user, token, lsToken, lsUser>>]_vars
    /\ [][(\E c \in pending : c.op = "logout" /\ c \notin pending'
                                /\ ~PageReload)
            => SettlesLogout /\ Cleared']_vars

\* a logout is waiting for its answer over an authenticated Session and a
\* filled cache
C11_Witness ==
    /\ \E c \in pending : c.op = "logout"
    /\ isAuthenticated /\ lsToken # NULL /\ lsUser # NULL

(* C12: the cache entries change only when a successful login writes them,
   when a logout removes them, or when a bootstrap deserialization failure
   removes them. *)
C12_CacheWriters ==
    [][(lsToken' # lsToken \/ lsUser' # lsUser)
          => \/ SettlesLogin /\ done'[Len(done')].success
             \/ SettlesLogout /\ lsToken' = NULL /\ lsUser' = NULL
             \/ RunsCheckAuth /\ JSONparse(lsUser) = SyntaxError
                  /\ lsToken' = NULL /\ lsUser' = NULL]_vars

(* C12, amended: the cache entries change only when a successful login
   writes them, when a logout removes them, when a bootstrap
   deserialization failure removes them, or when the response interceptor
   removes them because an API response has status 401. *)
C12_CacheWritersWith401 ==
    [][(lsToken' # lsToken \/ lsUser' # lsUser)
          => \/ SettlesLogin /\ done'[Len(done')].success
             \/ SettlesLogout /\ lsToken' = NULL /\ lsUser' = NULL
             \/ RunsCheckAuth /\ JSONparse(lsUser) = SyntaxError
                  /\ lsToken' = NULL /\ lsUser' = NULL
             \/ Settles /\ done'[Len(done')].status = 401
                  /\ lsToken' = NULL /\ lsUser' = NULL]_vars

\* a data request was answered 401: the cache is empty while the Session
\* is still set
C12_Witness ==
    /\ Len(done) = 1 /\ LastDone.op = "api" /\ LastDone.status = 401
    /\ lsToken = NULL /\ lsUser = NULL /\ isAuthenticated

(* C13: while loading is true the route guard yields only the placeholder,
   never protected content and never a redirect, for either value of
   isAuthenticated; and the application renders its loader and no route. *)
C13_PlaceholderWhileLoading ==
    loading =>
        /\ View.kind = "Loader"
        /\ \A a \in BOOLEAN :
              /\ PrivateRoute(loading, a).kind = "Placeholder"
              /\ App(pathname, loading, a).kind = "Loader"

\* the page has loaded on a guarded path over a valid cached session and
\* the bootstrap has not run yet
C13_Witness ==
    /\ loading /\ effectRuns = 0 /\ pathname = DashboardPath
    /\ lsToken # NULL /\ lsUser # NULL /\ JSONparse(lsUser) \in Users
    /\ View.kind = "Loader"

(* C14: when loading is false and isAuthenticated is false, the guard on a
   guarded path redirects to '/login' by replacing the current history
   entry: no entry is pushed. *)
C14_RedirectReplaces ==
    [][(/\ ~PageReload
        /\ <<user, token, loading>>' # <<user, token, loading>>
        /\ ~loading' /\ ~isAuthenticated'
        /\ pathname # LoginPath)
          => /\ PrivateRoute(loading', isAuthenticated')
                  = Element("Navigate", LoginPath, TRUE)
             /\ pathname' = LoginPath
             /\ histLen' = histLen]_vars

\* the user went from the dashboard to the transactions page, then logged
\* out there: the path is '/login' and the history still has two entries
C14_Witness ==
    /\ histLen = 2 /\ pathname = LoginPath
    /\ Len(done) = 1 /\ LastDone.op = "logout"
    /\ ~loading /\ ~isAuthenticated

(* C15: protected content is rendered only if loading is false and
   isAuthenticated is true; and when the Session becomes unauthenticated
   while a guarded page is shown, the page goes to the login path. *)
C15_ProtectedOnlyWhenAuthenticated ==
    /\ [](View.kind = "Children" => ~loading /\ isAuthenticated)
    /\ [][(View.kind = "Children" /\ ~isAuthenticated' /\ ~PageReload)
            => pathname' = LoginPath /\ View'.kind = "Login"]_vars

\* a protected page fetched its data, then the Session was logged out and
\* the login page is shown
C15_Witness ==
    /\ Len(done) = 2
    /\ done[1].op = "api" /\ done[1].success
    /\ done[2].op = "logout" /\ done[1].open = {}
    /\ View.kind = "Login" /\ pathname = LoginPath

(* C16: after bootstrap there is no terminal Session state: while
   authenticated a logout can be started and its completion, whatever the
   answer, leaves the Session unauthenticated; while unauthenticated a login
   can be started and its success leaves the Session authenticated. *)
C16_NoTerminalState ==
    /\ (Mounted /\ ~loading /\ nextId <= MaxCalls) =>
          /\ isAuthenticated => ENABLED LogoutCall
          /\ ~isAuthenticated => ENABLED LoginCall
    /\ \A c \in pending :
          /\ c.op = "logout" =>
                \A resp \in LogoutResponses :
                    ENABLED (LogoutResponse(c, resp) /\ ~isAuthenticated')
          /\ c.op = "login" =>
                \A resp \in LoginOk :
                    ENABLED (LoginResponse(c, resp) /\ isAuthenticated')

\* the Session was logged out and has been logged in again
C16_Witness ==
    /\ Len(done) = 2
    /\ done[1].op = "logout" /\ done[1].open = {}
    /\ done[2].op = "login" /\ done[2].success
    /\ ~loading /\ isAuthenticated

(* C17: a logout() that completes right after another logout() completed
   changes nothing: cache empty, user and token unset, isAuthenticated
   false, as after the first; and it resolves without error. *)
C17_LogoutIdempotent ==
    [][(SettlesLogout /\ done # <<>> /\ LastDone.op = "logout")
          => /\ UNCHANGED <<user, token, lsToken, lsUser>>
             /\ Cleared' /\ ~isAuthenticated'
             /\ done'[Len(done')].settled = "resolved"
             /\ done'[Len(done')].error = NULL]_vars

\* logout was called, completed, and was called again; the second revoke
\* request, sent without a token, was answered 401
C17_Witness ==
    /\ Len(done) = 2
    /\ done[1].op = "logout" /\ done[1].open = {}
    /\ done[2].op = "logout" /\ done[2].status = 401
    /\ done[2].auth = NoHeader
    /\ Cleared /\ ~isAuthenticated

\* the login page is shown to an unauthenticated Session
LoginShown ==
    ~loading /\ ~isAuthenticated /\ pathname = LoginPath /\ View.kind = "Login"

\* a login() call has succeeded after a 401 response
LoginSince401 ==
    \E i, j \in 1..Len(done) :
        i < j /\ done[i].status = 401 /\ done[j].op = "login" /\ done[j].success

(* C18: whenever an API response has status 401, the 'token' and 'user'
   entries are removed and the application goes to '/login' unless it is
   already there, where the login page is shown; the page load to '/login'
   finds the cache empty and its bootstrap ends unauthenticated with the
   login page shown and no protected content. *)
C18_AutoLogout ==
    /\ [][(Settles /\ done'[Len(done')].status = 401)
            => /\ lsToken' = NULL /\ lsUser' = NULL
               /\ pathname # LoginPath => reloading'
               /\ pathname = LoginPath => LoginShown']_vars
    /\ [][PageReload
            => /\ pathname' = LoginPath /\ FreshLoad'
               /\ lsToken' = NULL /\ lsUser' = NULL]_vars
    /\ [][(RunsCheckAuth /\ pathname = LoginPath
              /\ lsToken = NULL /\ lsUser = NULL)
            => LoginShown']_vars

(* C18, amended: whenever an API response has status 401, the 'token' and
   'user' entries are removed and the application goes to '/login' unless it
   is already there, where the login page is shown; unless a login() call
   has succeeded since the 401, the page load to '/login' finds the cache
   empty and its bootstrap ends unauthenticated with the login page shown
   and no protected content. *)
C18_AutoLogoutUnlessLogin ==
    /\ [][(Settles /\ done'[Len(done')].status = 401)
            => /\ lsToken' = NULL /\ lsUser' = NULL
               /\ pathname # LoginPath => reloading'
               /\ pathname = LoginPath => LoginShown']_vars
    /\ [][PageReload
            => /\ pathname' = LoginPath /\ FreshLoad'
               /\ LoginSince401 \/ (lsToken' = NULL /\ lsUser' = NULL)]_vars
    /\ [][(RunsCheckAuth /\ pathname = LoginPath
              /\ lsToken = NULL /\ lsUser = NULL)
            => LoginShown']_vars

\* a data request of a protected page was answered 401 and the page load
\* to '/login' is due: the Session is still set, the cache is empty
C18_Witness ==
    /\ reloading /\ Len(done) = 1
    /\ LastDone.op = "api" /\ LastDone.status = 401
    /\ isAuthenticated /\ pathname # LoginPath /\ lsToken = NULL

(* C19: every request sent carries Authorization 'Token <t>', t being the
   cache's token at the moment it is sent, and no Authorization header when
   the cache holds no token. *)
C19_AuthorizationHeader ==
    [][Sends => Sent.auth = (IF lsToken = NULL THEN NoHeader
                             ELSE <<"Token", lsToken>>)]_vars

\* the login request left without a header; the request sent after its
\* success carries the token it stored
C19_Witness ==
    /\ Len(done) = 1 /\ LastDone.op = "login" /\ LastDone.success
    /\ LastDone.auth = NoHeader /\ LastDone.token = "abc"
    /\ \E c \in pending : c.auth = <<"Token", "abc">>

(* C20: useAuth without an enclosing AuthProvider halts with the error
   'useAuth must be used within AuthProvider'; it returns no empty or
   default Session. Inside a provider it returns the Session. *)
C20_UseAuthOutsideProvider ==
    hook.called =>
        /\ ~hook.context.provided =>
              /\ hook.result.threw
              /\ hook.result.message = "useAuth must be used within AuthProvider"
        /\ hook.context.provided =>
              /\ ~hook.result.threw
              /\ hook.result.value = hook.context

\* a component outside any provider has called useAuth
C20_Witness ==
    /\ hook.called /\ ~hook.context.provided /\ hook.result.threw

----------------------------------------------------------------------------
(* login and logout calls that overlap *)

\* the logout settled as done[i] has been followed by a successful login
LoginAfter(i) ==
    \E j \in (i + 1)..Len(done) : done[j].op = "login" /\ done[j].success

\* the logout settled as done[i] has been followed by a successful login
\* that was called after that logout had completed
FreshLoginAfter(i) ==
    \E j \in (i + 1)..Len(done) :
        /\ done[j].op = "login" /\ done[j].success
        /\ done[j].id \notin done[i].open

(* C21: after a logout() call has completed, the Session stays
   unauthenticated and the cache stays empty until a login() call that was
   started after that logout completed resolves successfully; a login()
   started before the logout completed does not re-authenticate. *)
C21_LogoutHoldsAgainstOlderLogin ==
    \A i \in 1..Len(done) :
        (done[i].op = "logout" /\ ~FreshLoginAfter(i))
            => ~isAuthenticated /\ lsToken = NULL /\ lsUser = NULL

(* C21, amended: after a logout() call has completed, the Session stays
   unauthenticated and the cache stays empty until some login() call
   resolves successfully, whether it was started before or after the logout
   completed. *)
C21_LogoutHoldsUntilLogin ==
    \A i \in 1..Len(done) :
        (done[i].op = "logout" /\ ~LoginAfter(i))
            => ~isAuthenticated /\ lsToken = NULL /\ lsUser = NULL

\* a logout completed while a login was in flight and no login has
\* succeeded since: the Session and the cache are clear
C21_Witness ==
    /\ Len(done) = 1 /\ done[1].op = "logout"
    /\ \E c \in pending : c.op = "login" /\ c.id \in done[1].open
    /\ ~isAuthenticated /\ lsToken = NULL /\ lsUser = NULL

----------------------------------------------------------------------------
(* the cache against the Session *)

\* the cache holds what the Session holds
CacheIsSession == lsToken = token /\ lsUser = JSONstringify(user)

(* C22: in every state with loading false, whenever isAuthenticated is true
   the cache holds a 'token' entry equal to Session.token and a 'user' entry
   that is the serialization of Session.user, so every request sent carries
   the Session's token. *)
C22_CacheIsSession ==
    /\ []((~loading /\ isAuthenticated) => CacheIsSession)
    /\ [][(Sends /\ ~loading /\ isAuthenticated)
            => Sent.auth = <<"Token", token>>]_vars

(* C22, amended: in every state with loading false and no page load to
   '/login' due after a 401 response, whenever isAuthenticated is true the
   cache holds a 'token' entry equal to Session.token and a 'user' entry
   that is the serialization of Session.user, so every request sent in such
   a state carries the Session's token. *)
C22_CacheIsSessionUnlessReloading ==
    /\ []((~loading /\ isAuthenticated /\ ~reloading) => CacheIsSession)
    /\ [][(Sends /\ ~loading /\ isAuthenticated /\ ~reloading)
            => Sent.auth = <<"Token", token>>]_vars

\* a second login has replaced the Session and the cache of the first
C22_Witness ==
    /\ Len(done) = 2
    /\ done[1].op = "login" /\ done[1].success /\ done[1].token = "xyz"
    /\ done[2].op = "login" /\ done[2].success /\ done[2].token = "abc"
    /\ ~loading /\ isAuthenticated /\ ~reloading /\ CacheIsSession
    /\ token = "abc"

----------------------------------------------------------------------------
(* the login page *)

(* C23: the login page navigates to '/dashboard', replacing the history
   entry, if and only if its login() call resolved {success: true}; when
   login() resolves {success: false} the page stays on '/login', shows the
   returned error, and the Session remains unauthenticated. *)
C23_LoginPageNavigates ==
    /\ [][(SettlesLogin /\ done'[Len(done')].success)
            => /\ pathname = LoginPath /\ pathname' = DashboardPath
               /\ histLen' = histLen
               /\ loginPage'.message = WelcomeMessage]_vars
    /\ [][(SettlesLogin /\ ~done'[Len(done')].success)
            => /\ pathname = LoginPath /\ pathname' = LoginPath
               /\ View'.kind = "Login"
               /\ loginPage'.message = done'[Len(done')].error
               /\ ~isAuthenticated /\ ~isAuthenticated']_vars
    /\ [][(View.kind = "Login" /\ pathname' # LoginPath)
            => /\ SettlesLogin /\ done'[Len(done')].success
               /\ pathname' = DashboardPath]_vars

\* a first submit was rejected and its error is on the page; a second one
\* was accepted and the dashboard is shown
C23_Witness ==
    /\ Len(done) = 2
    /\ done[1].op = "login" /\ ~done[1].success
    /\ done[1].error = "Invalid credentials"
    /\ done[2].op = "login" /\ done[2].success
    /\ pathname = DashboardPath /\ isAuthenticated /\ histLen = 1
    /\ loginPage.message = WelcomeMessage

(* C24: once loading is false, visiting '/login' while isAuthenticated is
   true redirects to '/dashboard' with replace, and visiting it while
   isAuthenticated is false shows the login page; so the login page is never
   shown to an authenticated Session. *)
C24_LoginRouteRedirects ==
    /\ [](/\ App(LoginPath, FALSE, TRUE)
               = Element("Navigate", DashboardPath, TRUE)
          /\ App(LoginPath, FALSE, FALSE) = Element("Login", NULL, FALSE)
          /\ View.kind = "Login" => ~loading /\ ~isAuthenticated
          /\ (~loading /\ pathname = LoginPath)
                => View.kind = "Login" /\ ~isAuthenticated)
    /\ [][(RunsCheckAuth /\ pathname = LoginPath)
            => IF isAuthenticated'
               THEN pathname' = DashboardPath /\ histLen' = histLen
               ELSE pathname' = LoginPath /\ View'.kind = "Login"]_vars
    /\ [][Navigate(LoginPath)
            => IF isAuthenticated
               THEN pathname' = DashboardPath /\ histLen' = histLen + 1
               ELSE pathname' = LoginPath /\ View'.kind = "Login"]_vars

\* the page was loaded over a cache that holds a token and no user: the
\* bootstrap found no session and the login page is shown
C24_Witness ==
    /\ Mounted /\ done = <<>> /\ pending = {}
    /\ lsToken # NULL /\ lsUser = NULL
    /\ LoginShown

----------------------------------------------------------------------------
(* the dashboard *)

\* the await of a fetchData run settles in this step
SettlesFetch == Len(fetched') = Len(fetched) + 1

(* C25: fetchData updates the summary and the recent-transactions list
   together and only when both parallel requests succeed; if either request
   fails neither value changes and an error message is shown; in both cases
   summaryLoading, transactionsLoading and refreshing are false once the
   fetch has completed. *)
C25_FetchDataAllOrNothing ==
    /\ [][SettlesFetch =>
            LET f == fetched'[Len(fetched')]
            IN  /\ Fulfilled(f) =>
                      /\ dashboard'.summary = f.summary.data
                      /\ dashboard'.transactions = f.recent.data
                      /\ dashboard'.message = dashboard.message
                /\ ~Fulfilled(f) =>
                      /\ dashboard'.summary = dashboard.summary
                      /\ dashboard'.transactions = dashboard.transactions
                      /\ dashboard'.message = DashboardError
                /\ ~dashboard'.summaryLoading
                /\ ~dashboard'.transactionsLoading
                /\ ~dashboard'.refreshing]_vars
    /\ [][(/\ \/ dashboard'.summary # dashboard.summary
              \/ dashboard'.transactions # dashboard.transactions
           /\ ~PageReload)
            => SettlesFetch /\ Fulfilled(fetched'[Len(fetched')])]_vars
    /\ [](\A f \in fetches : Rejected(f) => f.settled)

\* a first run loaded both values; a refresh was rejected by its summary
\* request while its list request had succeeded: the values are those of
\* the first run and the error is shown
C25_Witness ==
    /\ Len(fetched) = 2
    /\ Fulfilled(fetched[1])
    /\ fetched[2].summary.status = 500 /\ fetched[2].recent.status = 200
    /\ fetched[2].recent.data # fetched[1].recent.data
    /\ dashboard.summary = fetched[1].summary.data
    /\ dashboard.transactions = fetched[1].recent.data
    /\ dashboard.message = DashboardError
    /\ ~dashboard.refreshing

----------------------------------------------------------------------------
(* the transactions page *)

\* the (filters, page, page size) selection of the page
Selection == Query(txPage.filters, txPage.currentPage, txPage.pageSize)

(* C26: on the transactions page, once every issued fetch has completed
   (the newest of them with success), the rows and the total shown are those
   returned for the current (filters, page, page size) selection: the
   response to an older request that arrives after the response to a newer
   one does not replace the newer result. *)
C26_ShownIsSelection ==
    (txFetches = {} /\ txPage.newest = 200)
        => txPage.transactions = Selection /\ txPage.total = Selection

(* C27: after 'Clear All' the filters applied to the transaction list are
   exactly {ordering: '-date'} and stay so until the user changes a filter
   field again; a change still waiting in the debounce when the clear
   happened is not applied after it. *)
C27_ClearedStaysCleared ==
    filterForm.cleared => txPage.filters = DefaultFilters

====
